---------------------------- MODULE Spec2Model ----------------------------
(***************************************************************************)
(* Model of mcp-apple-music:                                               *)
(*   - client.py : AppleMusicClient.get / get_all_pages (PagesSpec),       *)
(*                 one call of get or post (ClientSpec)                    *)
(*   - server.py : the limit each list or search tool sends (ClientSpec)   *)
(*   - setup.py  : the setup wizard main() and the handshake listener      *)
(*                 _Handler (SetupSpec)                                    *)
(* Python values are tagged tuples: <<"int", n>>, <<"str", s>>, PyNone.    *)
(***************************************************************************)
EXTENDS Integers, Sequences, FiniteSets, TLC

VARIABLES
    \* ---- get_all_pages (client.py) ----
    pc,          \* position of the get_all_pages coroutine
    max_items,   \* argument max_items
    params,      \* argument params (a dict: function from keys to values)
    user_auth,   \* argument user_auth
    results,     \* local list results
    offset,      \* local offset
    sent,        \* history: the requests that reached the server, in order
    pages,       \* history: the item lists of the pages received, in order
    last,        \* the response handled by the latest step (or NoResponse)
    returned,    \* the value returned to the caller
    raised,      \* the exception that left the call (or "none")
    \* ---- one get or post call (client.py) ----
    cpc,         \* position of the call: "idle", "awaiting", "returned", "raised"
    call,        \* the call: method, argument (params or body), user_auth
    wire,        \* history: the HTTP requests the call put on the wire
    answer,      \* the response received (or NoAnswer)
    outcome,     \* what the call returned or raised
    \* ---- setup wizard and handshake listener (setup.py) ----
    file,            \* the credential file CONFIG_PATH: exists, mode, content
    cfg,             \* main's local cfg
    mpc,             \* position of main()
    exit_code,       \* exit status of the process ("none" while it runs)
    developer_token, \* main's local developer_token
    html,            \* _Handler.html
    serving,         \* the listener: "none", "serving", "stopping", "stopped"
    token_event,     \* _token_event (is the flag set)
    received_token,  \* _received_token
    granted,         \* main's local granted ("unset" before wait returns)
    hpc,             \* position of the request handler in the listener thread
    req,             \* the request being handled (or the last one handled)
    resp,            \* the response written to req
    nreq,            \* history: number of requests the listener accepted
    set_calls,       \* history: number of _token_event.set() calls
    unblocker,       \* history: token of the POST whose set() raised the flag
    port,            \* the listening port PORT: "free" or "bound"
    file0,           \* history: the credential file when the run started
    sign_calls       \* history: number of _generate_developer_token calls

svars == <<file, cfg, mpc, exit_code, developer_token, html, serving,
           token_event, received_token, granted, hpc, req, resp, nreq,
           set_calls, unblocker, port, file0, sign_calls>>

gvars == <<pc, max_items, params, user_auth, results, offset, sent, pages,
           last, returned, raised>>

cvars == <<cpc, call, wire, answer, outcome>>

pvars == <<gvars, cvars>>

vars == <<pvars, svars>>

-----------------------------------------------------------------------------
(* Bounds of the model *)

\* requests explored within one get_all_pages call
MaxRequests == 5
\* small caller caps 0..SmallCap
SmallCap == 3
\* caller caps around k * page_size for k in 1..MaxFullPages
MaxFullPages == 2
\* short (partial) pages carry 1..MaxShort items
MaxShort == 1
\* requests the handshake listener accepts within one session
MaxHttp == 3

(* Program constants *)
page_size == 100
TOKEN_LIFETIME == 15777000

-----------------------------------------------------------------------------
(* Python values *)

PyNone == <<"None">>
PyInt(n) == <<"int", n>>
PyStr(s) == <<"str", s>>

\* Python truth value of a str-or-None: None and "" are falsy
Truthy(v) == v # PyNone /\ v # PyStr("")

EmptyDict == [k \in {} |-> PyNone]

Min(a, b) == IF a <= b THEN a ELSE b

\* list[:n] of Python
SliceTo(s, n) ==
    IF n >= 0 THEN SubSeq(s, 1, Min(n, Len(s)))
    ELSE SubSeq(s, 1, IF Len(s) + n > 0 THEN Len(s) + n ELSE 0)

RECURSIVE Flatten(_)
Flatten(ss) == IF ss = <<>> THEN <<>> ELSE Head(ss) \o Flatten(Tail(ss))

RECURSIVE SumLen(_)
SumLen(ss) == IF ss = <<>> THEN 0 ELSE Len(Head(ss)) + SumLen(Tail(ss))

-----------------------------------------------------------------------------
(* Inputs *)

\* caller caps: a negative one, the small ones, and those around full pages
MaxItemsSet ==
    {0 - 1} \cup (0 .. SmallCap)
        \cup { k * page_size + d : k \in 1 .. MaxFullPages, d \in {0 - 1, 0, 1} }

\* caller params: None/{} and a dict that carries its own limit and offset,
\* a kept value and a None value
ParamsSet ==
    { EmptyDict,
      [k \in {"limit", "offset", "include", "extend"} |->
          IF k = "limit" THEN PyInt(5)
          ELSE IF k = "offset" THEN PyInt(7)
          ELSE IF k = "include" THEN PyStr("catalog")
          ELSE PyNone] }

\* what the server may answer with a 2xx: the "data" key absent or a list of
\* n items, the "next" key absent/None, empty or a URL
PageLens == {0} \cup (1 .. MaxShort) \cup {page_size, page_size + 1}
NextValues == {PyNone, PyStr(""), PyStr("/v1/me/library/songs?offset=100")}
Responses ==
    [hasData : {TRUE}, n : PageLens, next : NextValues]
        \cup [hasData : {FALSE}, n : {0}, next : NextValues]

NoResponse == [hasData |-> FALSE, n |-> 0 - 1, next |-> PyNone]

\* the items of the k-th page received: item i of page k is <<k, i>>
PageItems(k, n) == [i \in 1 .. n |-> <<k, i>>]

-----------------------------------------------------------------------------
(* client.py: AppleMusicClient.get *)

\* auth.py (AppleMusicAuth): the credentials each header set carries
get_auth_headers == {"developer_token", "user_credential"}
get_catalog_headers == {"developer_token"}

\* variant: every falsy value is stripped (if v)
clean_params_truthy(p) ==
    [k \in {j \in DOMAIN p : p[j] \notin {PyNone, PyInt(0), PyStr("")}} |-> p[k]]

\* clean_params = {k: v for k, v in (params or {}).items() if v is not None}
clean_params(p) == [k \in {j \in DOMAIN p : p[j] # PyNone} |-> p[k]]

\* headers = get_auth_headers() if user_auth else get_catalog_headers()
headers(ua) == IF ua THEN get_auth_headers ELSE get_catalog_headers

\* the request that get() puts on the wire
get(p, ua) == [params |-> clean_params(p), headers |-> headers(ua)]

-----------------------------------------------------------------------------
(* client.py: AppleMusicClient.get_all_pages *)

\* page_params = {**(params or {}), "limit": page_size, "offset": offset}
page_params(p, off) ==
    [k \in DOMAIN p \cup {"limit", "offset"} |->
        IF k = "limit" THEN PyInt(page_size)
        ELSE IF k = "offset" THEN PyInt(off)
        ELSE p[k]]

\* variant: the loop runs until a break (while True)
LoopTestAlways(res, m) == TRUE

\* variant: the loop test made with <= instead of <
LoopTestInclusive(res, m) == Len(res) <= m

\* while len(results) < max_items
LoopTest(res, m) == Len(res) < m

\* items = data.get("data", [])
items_of(k, r) == IF r.hasData THEN PageItems(k, r.n) ELSE <<>>

\* variant: the page is put in front of the accumulator
ExtendFront(res, items) == items \o res

\* results.extend(items)
Extend(res, items) == res \o items

\* variant: the empty-page escape hatch is missing
BreakOnCursorOnly(next_url, items) == ~Truthy(next_url)

\* if not next_url or not items: break
Break(next_url, items) == ~Truthy(next_url) \/ items = <<>>

\* variant: the offset advances by the page size asked for
NextOffsetByPageSize(off, items) == off + page_size

\* offset += len(items)
NextOffset(off, items) == off + Len(items)

\* variant: the accumulator is returned uncut
ResultUncut(res, m) == res

\* return results[:max_items]
Result(res, m) == SliceTo(res, m)

\* the call: locals are set, the loop test is made and either the first
\* request is put on the wire or the (empty) result is returned
Call ==
    /\ pc = "idle"
    /\ \E m \in MaxItemsSet, p \in ParamsSet, ua \in BOOLEAN :
        /\ max_items' = m
        /\ params' = p
        /\ user_auth' = ua
        /\ results' = <<>>
        /\ offset' = 0
        /\ IF LoopTest(<<>>, m)
           THEN /\ pc' = "awaiting"
                /\ sent' = <<get(page_params(p, 0), ua)>>
                /\ returned' = returned
           ELSE /\ pc' = "returned"
                /\ sent' = <<>>
                /\ returned' = Result(<<>>, m)
    /\ UNCHANGED <<pages, last, raised>>
    /\ UNCHANGED cvars
    /\ UNCHANGED svars

\* a 2xx response arrives: the rest of the loop body runs, then the loop
\* test, up to the next await (the next request) or the return
Respond ==
    /\ pc = "awaiting"
    /\ \E r \in Responses :
        LET k == Len(pages) + 1
            items == items_of(k, r)
            res == Extend(results, items)
        IN  /\ last' = r
            /\ pages' = Append(pages, items)
            /\ results' = res
            /\ IF Break(r.next, items)
               THEN /\ pc' = "returned"
                    /\ returned' = Result(res, max_items)
                    /\ UNCHANGED <<offset, sent>>
               ELSE LET off == NextOffset(offset, items)
                    IN  /\ offset' = off
                        /\ IF LoopTest(res, max_items)
                           THEN /\ Len(sent) < MaxRequests
                                /\ pc' = "awaiting"
                                /\ sent' = Append(sent,
                                       get(page_params(params, off), user_auth))
                                /\ returned' = returned
                           ELSE /\ pc' = "returned"
                                /\ returned' = Result(res, max_items)
                                /\ sent' = sent
    /\ UNCHANGED <<max_items, params, user_auth, raised>>
    /\ UNCHANGED cvars
    /\ UNCHANGED svars

\* variant: the error is caught and what was fetched so far is returned
on_error_partial(res, m, e) ==
    [pc |-> "returned", raised |-> "none", returned |-> Result(res, m)]

\* line 101: await self.get(...) stands in no try block, so the exception
\* leaves get_all_pages and nothing is returned
on_error(res, m, e) == [pc |-> "raised", raised |-> e, returned |-> <<>>]

\* the errors self.get may raise
GetErrors == {"HTTPStatusError", "TransportError", "JSONDecodeError"}

\* the request fails: raise_for_status() raises on a non-2xx response, the
\* transport raises when no response arrives, response.json() raises on a
\* body that is not JSON; nothing in get_all_pages catches it
Fail ==
    /\ pc = "awaiting"
    /\ \E e \in GetErrors :
        LET o == on_error(results, max_items, e)
        IN  /\ pc' = o.pc
            /\ raised' = o.raised
            /\ returned' = o.returned
    /\ UNCHANGED <<max_items, params, user_auth, results, offset, sent, pages,
                   last>>
    /\ UNCHANGED cvars
    /\ UNCHANGED svars

PagesInit ==
    /\ pc = "idle"
    /\ max_items = 0
    /\ params = EmptyDict
    /\ user_auth = TRUE
    /\ results = <<>>
    /\ offset = 0
    /\ sent = <<>>
    /\ pages = <<>>
    /\ last = NoResponse
    /\ returned = <<>>
    /\ raised = "none"

PagesNext == Call \/ Respond \/ Fail

-----------------------------------------------------------------------------
(* client.py: one call of AppleMusicClient.get or AppleMusicClient.post *)

\* what the server may answer: a status and the bytes of the body
Statuses == {200, 201, 204, 301, 404, 500}
Contents == {"", "{\"data\":[]}", "{\"id\":\"p.1\"}", "<html>"}
Answers == [status : Statuses, content : Contents]
NoAnswer == [status |-> 0, content |-> ""]

\* why no response may arrive (httpx.TransportError: timeout after TIMEOUT,
\* connection refused, DNS)
TransportFailures == {"ConnectTimeout", "ReadTimeout", "ConnectError"}

\* the bodies a caller may pass to post: None or {}, and a dict
PostBodies == {EmptyDict, [k \in {"id"} |-> PyStr("p.1")]}

\* what a call ends in
Returned(v) == [kind |-> "return", value |-> v, error |-> "none"]
Raised(e) == [kind |-> "raise", value |-> <<>>, error |-> e]
NoOutcome == [kind |-> "none", value |-> <<>>, error |-> "none"]

\* variant: only 4xx and 5xx count as errors
is_success_below_400(status) == status < 400

\* response.raise_for_status() passes the 2xx responses only
is_success(status) == 200 <= status /\ status <= 299

\* response.json(): the decoded document, or JSONDecodeError when the body
\* is not JSON (an empty body is not)
response_json(a) ==
    IF a.content = "{\"data\":[]}" THEN Returned(<<"dict", "data", <<>>>>)
    ELSE IF a.content = "{\"id\":\"p.1\"}" THEN Returned(<<"dict", "id", "p.1">>)
    ELSE Raised("JSONDecodeError")

\* lines 56-57: raise_for_status(), then return response.json()
get_outcome(a) ==
    IF ~is_success(a.status) THEN Raised("HTTPStatusError")
    ELSE response_json(a)

\* variant: the body is looked at before the status
post_outcome_body_first(a) ==
    IF a.content = "" THEN Returned(<<"dict", "empty", <<>>>>)
    ELSE IF ~is_success(a.status) THEN Raised("HTTPStatusError")
    ELSE response_json(a)

\* lines 80-81: raise_for_status(), then
\* return response.json() if response.content else {}
post_outcome(a) ==
    IF ~is_success(a.status) THEN Raised("HTTPStatusError")
    ELSE IF a.content # "" THEN response_json(a)
    ELSE Returned(<<"dict", "empty", <<>>>>)

\* lines 69-72: headers = {**get_auth_headers(), "Content-Type": ...}
post_headers == get_auth_headers \cup {"content_type_json"}

\* lines 74-79: the request that post() puts on the wire (json=body or {})
post(body) == [json |-> body, headers |-> post_headers]

\* get(path, params, user_auth) is called: the request is put on the wire
GetCall ==
    /\ cpc = "idle"
    /\ \E p \in ParamsSet, ua \in BOOLEAN :
        /\ call' = [method |-> "get", arg |-> p, user_auth |-> ua,
                    tool |-> "none", limit |-> 0]
        /\ wire' = <<[method |-> "GET", request |-> get(p, ua)]>>
    /\ cpc' = "awaiting"
    /\ UNCHANGED <<answer, outcome>>
    /\ UNCHANGED gvars
    /\ UNCHANGED svars

\* post(path, body) is called: the request is put on the wire
PostCall ==
    /\ cpc = "idle"
    /\ \E b \in PostBodies :
        /\ call' = [method |-> "post", arg |-> b, user_auth |-> TRUE,
                    tool |-> "none", limit |-> 0]
        /\ wire' = <<[method |-> "POST", request |-> post(b)]>>
    /\ cpc' = "awaiting"
    /\ UNCHANGED <<answer, outcome>>
    /\ UNCHANGED gvars
    /\ UNCHANGED svars

-----------------------------------------------------------------------------
(* server.py: the list and search tools *)

Max(a, b) == IF a >= b THEN a ELSE b

\* the tools that take a limit
SearchTools == {"search_catalog", "search_library"}
LibraryTools == {"get_library_songs", "get_library_albums", "get_library_artists"}
PlaylistTools == {"get_library_playlists", "get_playlist_tracks"}
Tools ==
    SearchTools \cup LibraryTools \cup PlaylistTools
        \cup {"get_recently_played", "get_recommendations"}

\* the limits and offsets a caller may pass
LimitArgs == {0 - 1000, 0 - 1, 0, 1, 2, 10, 11, 25, 26, 50, 51, 100, 101, 1000}
OffsetArgs == {0 - 1, 0, 5}

\* variant: the limit is only capped from above
clamp_upper_only(limit, hi) == Min(limit, hi)

\* min(max(1, limit), hi)
clamp(limit, hi) == Min(Max(1, limit), hi)

\* the limit each tool sends (lines 112, 168, 214, 244, 274, 302, 332, 428,
\* 475)
tool_limit(t, limit) ==
    IF t \in SearchTools THEN clamp(limit, 25)
    ELSE IF t \in LibraryTools \cup PlaylistTools THEN clamp(limit, 100)
    ELSE IF t = "get_recently_played" THEN clamp(limit, 50)
    ELSE clamp(limit, 10)

\* the params each tool passes to client.get
tool_params(t, limit, off) ==
    IF t \in SearchTools
    THEN [k \in {"term", "types", "limit"} |->
            IF k = "term" THEN PyStr("query")
            ELSE IF k = "types" THEN PyStr("songs,albums")
            ELSE PyInt(tool_limit(t, limit))]
    ELSE IF t \in LibraryTools
    THEN [k \in {"limit", "offset"} |->
            IF k = "limit" THEN PyInt(tool_limit(t, limit))
            ELSE PyInt(Max(0, off))]
    ELSE [k \in {"limit"} |-> PyInt(tool_limit(t, limit))]

\* a tool is called with a limit: it calls client.get once (search_catalog
\* with user_auth=False), which puts the request on the wire
ToolCall ==
    /\ cpc = "idle"
    /\ \E t \in Tools, l \in LimitArgs, o \in OffsetArgs :
        LET p == tool_params(t, l, o)
            ua == t # "search_catalog"
        IN  /\ call' = [method |-> "get", arg |-> p, user_auth |-> ua,
                        tool |-> t, limit |-> l]
            /\ wire' = <<[method |-> "GET", request |-> get(p, ua)]>>
    /\ cpc' = "awaiting"
    /\ UNCHANGED <<answer, outcome>>
    /\ UNCHANGED gvars
    /\ UNCHANGED svars

\* a response arrives: lines 56-57 of get, lines 80-81 of post
Answer ==
    /\ cpc = "awaiting"
    /\ \E a \in Answers :
        LET o == IF call.method = "get" THEN get_outcome(a)
                 ELSE post_outcome(a)
        IN  /\ answer' = a
            /\ outcome' = o
            /\ cpc' = IF o.kind = "return" THEN "returned" ELSE "raised"
    /\ UNCHANGED <<call, wire>>
    /\ UNCHANGED gvars
    /\ UNCHANGED svars

\* no response arrives: client.get / client.post raise and nothing in get or
\* post catches it
NoResponseArrives ==
    /\ cpc = "awaiting"
    /\ \E e \in TransportFailures :
        outcome' = Raised(e)
    /\ answer' = NoAnswer
    /\ cpc' = "raised"
    /\ UNCHANGED <<call, wire>>
    /\ UNCHANGED gvars
    /\ UNCHANGED svars

NoCall == [method |-> "none", arg |-> EmptyDict, user_auth |-> TRUE,
           tool |-> "none", limit |-> 0]

ClientInit ==
    /\ cpc = "idle"
    /\ call = NoCall
    /\ wire = <<>>
    /\ answer = NoAnswer
    /\ outcome = NoOutcome

ClientNext == GetCall \/ PostCall \/ ToolCall \/ Answer \/ NoResponseArrives

-----------------------------------------------------------------------------
(* setup.py: values *)

\* a dict with no keys ({}), also what _load_existing returns without a file
EmptyRecord == [k \in {} |-> ""]

\* d.get(k): the value, or a falsy one when the key is absent
Get(d, k) == IF k \in DOMAIN d THEN d[k] ELSE ""

\* d[k] = v
Put(d, k, v) == [j \in DOMAIN d \cup {k} |-> IF j = k THEN v ELSE d[j]]

\* the filesystem of the run: Path(p).expanduser().exists(); Path("") is the
\* current directory, which exists
PathExists(p) == p \in {"", "~/AuthKey.p8", "~/garbage.p8"}

\* files that open() can read and that hold a P-256 private key
ValidKeyFile(p) == p = "~/AuthKey.p8"

\* the credential files a run may find
StoredRecord ==
    [k \in {"team_id", "key_id", "private_key_path", "storefront",
            "music_user_token"} |->
        IF k = "team_id" THEN "T0"
        ELSE IF k = "key_id" THEN "K0"
        ELSE IF k = "private_key_path" THEN "~/AuthKey.p8"
        ELSE IF k = "storefront" THEN "us"
        ELSE "old-user-token"]

\* a record without the key fields, with a field the wizard does not know
PartialRecord == [k \in {"team_id", "storefront", "legacy_note"} |->
                    IF k = "team_id" THEN "T0"
                    ELSE IF k = "storefront" THEN "us"
                    ELSE "kept by hand"]

\* the members of a JSON object are written in this order
Keys == <<"team_id", "key_id", "private_key_path", "storefront",
          "music_user_token", "legacy_note">>

\* json.dump(cfg, f, indent=2): the document, a list of "key": value members
json_dump(c) ==
    LET InRecord(m) == m[1] \in DOMAIN c
    IN  SelectSeq([i \in 1 .. Len(Keys) |-> <<Keys[i], Get(c, Keys[i])>>],
                  InRecord)

\* json.load(f): the dict of the members, the last one of a repeated key
json_load(doc) ==
    [k \in {doc[i][1] : i \in DOMAIN doc} |->
        LET at == CHOOSE i \in DOMAIN doc :
                    /\ doc[i][1] = k
                    /\ \A j \in DOMAIN doc : doc[j][1] = k => j <= i
        IN  doc[at][2]]

\* CONFIG_PATH: does CONFIG_DIR exist, does the file, its permission bits and
\* its text
NoDir == [dir |-> FALSE, exists |-> FALSE, mode |-> "none", content |-> <<>>]
NoFile == [dir |-> TRUE, exists |-> FALSE, mode |-> "none", content |-> <<>>]

InitialFiles ==
    { NoDir, NoFile,
      [dir |-> TRUE, exists |-> TRUE, mode |-> "0644",
       content |-> json_dump(StoredRecord)],
      [dir |-> TRUE, exists |-> TRUE, mode |-> "0600",
       content |-> json_dump(PartialRecord)] }

\* what the operator may type at the prompts
TeamIds == {"", "T1"}
KeyIds == {"", "K1"}
KeyPaths == {"", "~/missing.p8", "~/AuthKey.p8", "~/garbage.p8"}
Storefronts == {""}
Times == {0, 1700000000}

\* the requests a client may send to the listener
Targets == {"/", "/?retry=1", "/save_token", "/favicon.ico"}
NoBody == [kind |-> "none", token |-> ""]
Bodies ==
    { [kind |-> "token", token |-> "abc"],
      [kind |-> "token", token |-> "xyz"],
      [kind |-> "nojson", token |-> ""],
      [kind |-> "nofield", token |-> ""],
      [kind |-> "stalled", token |-> ""] }
Requests ==
    [method : {"GET", "PUT"}, target : Targets, body : {NoBody}]
        \cup [method : {"POST"}, target : {"/save_token"}, body : Bodies]
        \cup [method : {"POST"}, target : {"/"}, body : {NoBody}]

NoRequest == [method |-> "none", target |-> "", body |-> NoBody]
NoResp == [status |-> 0, body |-> <<>>]
NoToken == <<"NoToken">>

-----------------------------------------------------------------------------
(* setup.py: helpers *)

\* _HTML, cut at the placeholder
HTML_TEMPLATE ==
    << <<"text", "<!DOCTYPE html> ... developerToken: '">>,
       <<"text", "{{DEVELOPER_TOKEN}}">>,
       <<"text", "', app: { name: 'MCP Apple Music' ... </html>">> >>

\* str.replace(old, new) on the chunks of a string
Replace(chunks, old, new) ==
    [i \in DOMAIN chunks |-> IF chunks[i] = old THEN new ELSE chunks[i]]

\* urlparse(self.path).path: the target without its query
UrlPath(target) == IF target = "/?retry=1" THEN "/" ELSE target

\* _ask: the stripped input, or the default when it is empty
Ask(value, default) == IF value = "" THEN default ELSE value

\* variant: a key file that cannot be read or used does not stop the signer
SigningFailsOnMissingKeyOnly(c) ==
    \/ "private_key_path" \notin DOMAIN c
    \/ "team_id" \notin DOMAIN c
    \/ "key_id" \notin DOMAIN c

\* _generate_developer_token: the signed assertion, or "raise" when a key of
\* cfg is missing, the key file cannot be read or it holds no usable key
SigningFails(c) ==
    \/ "private_key_path" \notin DOMAIN c
    \/ "team_id" \notin DOMAIN c
    \/ "key_id" \notin DOMAIN c
    \/ ~ValidKeyFile(c["private_key_path"])

\* variant: the token expires 180 days after it was issued
generate_developer_token_180_days(c, now) ==
    <<"jwt", c["key_id"], c["team_id"], now, now + 180 * 24 * 3600>>

\* lines 206-212: header kid, claims iss, iat = now, exp = now + 15_777_000
generate_developer_token(c, now) ==
    <<"jwt", c["key_id"], c["team_id"], now, now + TOKEN_LIFETIME>>

\* variant: main reads the newest buffered token
ReadTokenLast(rt) == rt[Len(rt)]

\* _received_token[0]
ReadToken(rt) == rt[1]

\* variant: the failure test made with `and`
TimedOutBoth(g, rt) == g # "True" /\ rt = <<>>

\* variant: the failure test without `not granted`
TimedOutOnEmptyOnly(g, rt) == rt = <<>>

\* if not granted or not _received_token
TimedOut(g, rt) == g # "True" \/ rt = <<>>

\* line 268: threading.Event.wait(timeout) returns the flag as it is when the
\* wait ends: True once set, False when the timeout expires first
waitAlwaysTrue(flag) == "True"
wait(flag) == IF flag THEN "True" ELSE "False"

\* lines 182-186: _load_existing
load_existing(f) == IF f.exists THEN json_load(f.content) ELSE EmptyRecord

\* line 190: CONFIG_DIR.mkdir(parents=True, exist_ok=True)
mkdir(f) == [f EXCEPT !.dir = TRUE]

\* variant: the record is merged into the one that is stored
open_w_merged(f, c) ==
    [f EXCEPT !.exists = TRUE,
              !.mode = IF f.exists THEN f.mode ELSE "0644",
              !.content = f.content \o json_dump(c)]

\* lines 191-192: open(CONFIG_PATH, "w") creates the file (permission 0666
\* less the umask 022) or truncates it, keeping its permission; json.dump
\* writes the record
open_w(f, c) ==
    [f EXCEPT !.exists = TRUE,
              !.mode = IF f.exists THEN f.mode ELSE "0644",
              !.content = json_dump(c)]

\* variant: the permission is left as open() made it
chmod_skipped(f, m) == f

\* line 193: CONFIG_PATH.chmod(0o600)
chmod(f, m) == [f EXCEPT !.mode = m]

\* _save_config: mkdir, write the record, chmod 0600
save_config(f, c) == chmod(open_w(mkdir(f), c), "0600")

-----------------------------------------------------------------------------
(* setup.py: main *)

hvars == <<hpc, req, resp, nreq, received_token, token_event, set_calls,
           unblocker>>

\* lines 223-230: load the record and, when there is one, ask what to do
LoadExisting ==
    /\ mpc = "start"
    /\ LET loaded == load_existing(file)
       IN  IF loaded # EmptyRecord
           THEN \E choice \in {"q", "r", "u"} :
                  IF choice = "q"
                  THEN /\ mpc' = "exit"
                       /\ exit_code' = "0"
                       /\ cfg' = loaded
                  ELSE /\ mpc' = "gather"
                       /\ exit_code' = exit_code
                       /\ cfg' = IF choice = "r" THEN loaded ELSE EmptyRecord
           ELSE /\ mpc' = "gather"
                /\ cfg' = loaded
                /\ exit_code' = exit_code
    /\ UNCHANGED <<file, developer_token, html, serving, granted>>
    /\ UNCHANGED <<port, file0, sign_calls>>
    /\ UNCHANGED hvars
    /\ UNCHANGED pvars

\* lines 233-239: ask for the credentials unless cfg has a team_id
Gather ==
    /\ mpc = "gather"
    /\ IF Get(cfg, "team_id") = ""
       THEN \E t \in TeamIds, k \in KeyIds, p \in KeyPaths, sf \in Storefronts :
              cfg' = Put(Put(Put(Put(cfg, "team_id", Ask(t, "")),
                                 "key_id", Ask(k, "")),
                             "private_key_path", Ask(p, "")),
                         "storefront", Ask(sf, "it"))
       ELSE cfg' = cfg
    /\ mpc' = "validate"
    /\ UNCHANGED <<file, exit_code, developer_token, html, serving, granted>>
    /\ UNCHANGED <<port, file0, sign_calls>>
    /\ UNCHANGED hvars
    /\ UNCHANGED pvars

\* lines 242-245: the key file must exist (a cfg without the key raises
\* KeyError, which ends the process with status 1)
ValidateKeyPath ==
    /\ mpc = "validate"
    /\ IF "private_key_path" \in DOMAIN cfg /\ PathExists(cfg["private_key_path"])
       THEN /\ mpc' = "sign"
            /\ exit_code' = exit_code
       ELSE /\ mpc' = "exit"
            /\ exit_code' = "1"
    /\ UNCHANGED <<file, cfg, developer_token, html, serving, granted>>
    /\ UNCHANGED <<port, file0, sign_calls>>
    /\ UNCHANGED hvars
    /\ UNCHANGED pvars

\* lines 249-254: sign once; any exception ends the run with status 1
GenerateToken ==
    /\ mpc = "sign"
    /\ IF SigningFails(cfg)
       THEN /\ mpc' = "exit"
            /\ exit_code' = "1"
            /\ developer_token' = developer_token
       ELSE \E now \in Times :
              /\ developer_token' = generate_developer_token(cfg, now)
              /\ mpc' = "serve"
              /\ exit_code' = exit_code
    /\ UNCHANGED <<file, cfg, html, serving, granted>>
    /\ sign_calls' = sign_calls + 1
    /\ UNCHANGED <<port, file0>>
    /\ UNCHANGED hvars
    /\ UNCHANGED pvars

\* lines 257-265: set the page, bind the port (HTTPServer), start the
\* listener thread, open the browser
StartServer ==
    /\ mpc = "serve"
    /\ html' = Replace(HTML_TEMPLATE, <<"text", "{{DEVELOPER_TOKEN}}">>,
                       developer_token)
    /\ serving' = "serving"
    /\ mpc' = "wait"
    /\ UNCHANGED <<file, cfg, exit_code, developer_token, granted>>
    /\ port' = "bound"
    /\ UNCHANGED <<file0, sign_calls>>
    /\ UNCHANGED hvars
    /\ UNCHANGED pvars

\* line 268: _token_event.wait returns True once the flag is set
WaitGranted ==
    /\ mpc = "wait"
    /\ token_event
    /\ granted' = wait(token_event)
    /\ mpc' = "shutdown"
    /\ UNCHANGED <<file, cfg, exit_code, developer_token, html, serving>>
    /\ UNCHANGED <<port, file0, sign_calls>>
    /\ UNCHANGED hvars
    /\ UNCHANGED pvars

\* line 268: the timeout expires while the flag is not set
WaitTimeout ==
    /\ mpc = "wait"
    /\ ~token_event
    /\ granted' = wait(token_event)
    /\ mpc' = "shutdown"
    /\ UNCHANGED <<file, cfg, exit_code, developer_token, html, serving>>
    /\ UNCHANGED <<port, file0, sign_calls>>
    /\ UNCHANGED hvars
    /\ UNCHANGED pvars

\* line 270: server.shutdown() asks the serve_forever loop to stop ...
ShutdownRequest ==
    /\ mpc = "shutdown"
    /\ serving' = "stopping"
    /\ mpc' = "shutdown_wait"
    /\ UNCHANGED <<file, cfg, exit_code, developer_token, html, granted>>
    /\ UNCHANGED <<port, file0, sign_calls>>
    /\ UNCHANGED hvars
    /\ UNCHANGED pvars

\* ... and returns when the loop has left, after the request in progress
ShutdownDone ==
    /\ mpc = "shutdown_wait"
    /\ hpc = "idle"
    /\ serving' = "stopped"
    /\ mpc' = "check"
    /\ UNCHANGED <<file, cfg, exit_code, developer_token, html, granted>>
    /\ UNCHANGED <<port, file0, sign_calls>>
    /\ UNCHANGED hvars
    /\ UNCHANGED pvars

\* lines 272-274: sys.exit(1) ends the process, which releases the port
\* (server_close() is never called, so shutdown() alone leaves it bound)
CheckOutcome ==
    /\ mpc = "check"
    /\ IF TimedOut(granted, received_token)
       THEN /\ mpc' = "exit"
            /\ exit_code' = "1"
       ELSE /\ mpc' = "save"
            /\ exit_code' = exit_code
    /\ UNCHANGED <<file, cfg, developer_token, html, serving, granted>>
    /\ port' = IF TimedOut(granted, received_token) THEN "free" ELSE port
    /\ UNCHANGED <<file0, sign_calls>>
    /\ UNCHANGED hvars
    /\ UNCHANGED pvars

\* lines 276-291: store the token in cfg, save it, return from main (the
\* process ends and the port is released)
SaveConfig ==
    /\ mpc = "save"
    /\ LET c == Put(cfg, "music_user_token", ReadToken(received_token))
       IN  /\ cfg' = c
           /\ file' = save_config(file, c)
    /\ mpc' = "exit"
    /\ exit_code' = "0"
    /\ UNCHANGED <<developer_token, html, serving, granted>>
    /\ port' = "free"
    /\ UNCHANGED <<file0, sign_calls>>
    /\ UNCHANGED hvars
    /\ UNCHANGED pvars

-----------------------------------------------------------------------------
(* setup.py: _Handler, run by the listener thread one request at a time *)

mvars == <<file, cfg, mpc, exit_code, developer_token, html, serving, granted,
           port, file0, sign_calls>>

Accepting == serving = "serving" /\ hpc = "idle" /\ nreq < MaxHttp

\* a method _Handler defines no do_ method for: BaseHTTPRequestHandler
\* answers 501
Unsupported ==
    /\ Accepting
    /\ \E r \in Requests :
        /\ r.method \notin {"GET", "POST"}
        /\ req' = r
        /\ resp' = [status |-> 501, body |-> <<"Unsupported method">>]
    /\ nreq' = nreq + 1
    /\ UNCHANGED <<hpc, received_token, token_event, set_calls, unblocker>>
    /\ UNCHANGED mvars
    /\ UNCHANGED pvars

\* lines 145-155
do_GET ==
    /\ Accepting
    /\ \E r \in Requests :
        /\ r.method = "GET"
        /\ req' = r
        /\ resp' = IF UrlPath(r.target) = "/"
                   THEN [status |-> 200, body |-> html]
                   ELSE [status |-> 404, body |-> <<>>]
    /\ nreq' = nreq + 1
    /\ UNCHANGED <<hpc, received_token, token_event, set_calls, unblocker>>
    /\ UNCHANGED mvars
    /\ UNCHANGED pvars

\* variant: a missing "token" field is read as an empty token
has_token_lenient(body) == body.kind \in {"token", "nofield"}

\* lines 160-161: json.loads(...) and data["token"] both succeed
has_token(body) == body.kind = "token"

\* lines 157-158 and 169-171: the path test; any other path answers 404
do_POST ==
    /\ Accepting
    /\ \E r \in Requests :
        /\ r.method = "POST"
        /\ req' = r
        /\ IF UrlPath(r.target) # "/save_token"
           THEN /\ resp' = [status |-> 404, body |-> <<>>]
                /\ hpc' = hpc
           ELSE /\ resp' = NoResp
                /\ hpc' = "reading"
    /\ nreq' = nreq + 1
    /\ UNCHANGED <<received_token, token_event, set_calls, unblocker>>
    /\ UNCHANGED mvars
    /\ UNCHANGED pvars

\* lines 159-161: rfile.read(length) returns when the client has sent the
\* Content-Length bytes it announced (it never returns for a body that stays
\* short of them on an open connection: the socket has no timeout); the body
\* is decoded and its token appended; json.loads or data["token"] raising
\* ends the handler without a response
ReadBody ==
    /\ hpc = "reading"
    /\ req.body.kind # "stalled"
    /\ IF has_token(req.body)
       THEN /\ received_token' = Append(received_token, req.body.token)
            /\ hpc' = "appended"
       ELSE /\ received_token' = received_token
            /\ hpc' = "idle"
    /\ UNCHANGED <<req, resp, nreq, token_event, set_calls, unblocker>>
    /\ UNCHANGED mvars
    /\ UNCHANGED pvars

\* lines 163-166
PostRespond ==
    /\ hpc = "appended"
    /\ resp' = [status |-> 200, body |-> <<"{\"ok\":true}">>]
    /\ hpc' = "responded"
    /\ UNCHANGED <<req, nreq, received_token, token_event, set_calls, unblocker>>
    /\ UNCHANGED mvars
    /\ UNCHANGED pvars

\* line 168
PostSignal ==
    /\ hpc = "responded"
    /\ token_event' = TRUE
    /\ set_calls' = set_calls + 1
    /\ unblocker' = IF token_event THEN unblocker ELSE <<"token", req.body.token>>
    /\ hpc' = "idle"
    /\ UNCHANGED <<req, resp, nreq, received_token>>
    /\ UNCHANGED mvars
    /\ UNCHANGED pvars

-----------------------------------------------------------------------------
(* Specifications *)

SetupOff ==
    /\ file = NoFile
    /\ cfg = EmptyRecord
    /\ mpc = "off"
    /\ exit_code = "none"
    /\ developer_token = NoToken
    /\ html = <<>>
    /\ serving = "none"
    /\ token_event = FALSE
    /\ received_token = <<>>
    /\ granted = "unset"
    /\ hpc = "idle"
    /\ req = NoRequest
    /\ resp = NoResp
    /\ nreq = 0
    /\ set_calls = 0
    /\ unblocker = NoToken
    /\ port = "free"
    /\ file0 = file
    /\ sign_calls = 0

SetupInit ==
    /\ file \in InitialFiles
    /\ cfg = EmptyRecord
    /\ mpc = "start"
    /\ exit_code = "none"
    /\ developer_token = NoToken
    /\ html = <<>>
    /\ serving = "none"
    /\ token_event = FALSE
    /\ received_token = <<>>
    /\ granted = "unset"
    /\ hpc = "idle"
    /\ req = NoRequest
    /\ resp = NoResp
    /\ nreq = 0
    /\ set_calls = 0
    /\ unblocker = NoToken
    /\ port = "free"
    /\ file0 = file
    /\ sign_calls = 0

MainNext ==
    \/ LoadExisting \/ Gather \/ ValidateKeyPath \/ GenerateToken
    \/ StartServer \/ WaitGranted \/ WaitTimeout \/ ShutdownRequest
    \/ ShutdownDone \/ CheckOutcome \/ SaveConfig

HandlerNext ==
    Unsupported \/ do_GET \/ do_POST \/ ReadBody \/ PostRespond \/ PostSignal

SetupNext == MainNext \/ HandlerNext

\* one get_all_pages call (the setup wizard does not run)
PagesStart == PagesInit /\ ClientInit /\ SetupOff
PagesSpec == PagesStart /\ [][PagesNext]_vars

\* one run of the setup wizard with its handshake session (no API call)
SetupStart == SetupInit /\ PagesInit /\ ClientInit
SetupSpec == SetupStart /\ [][SetupNext]_vars

\* one call of get or post (no get_all_pages call, the wizard does not run)
ClientStart == ClientInit /\ PagesInit /\ SetupOff
ClientSpec == ClientStart /\ [][ClientNext]_vars

-----------------------------------------------------------------------------
(* Properties of get_all_pages *)

CeilDiv(a, b) == (a + b - 1) \div b

LastPage == pages[Len(pages)]

\* the pages that were followed by another request
FollowedPages == { k \in 1 .. Len(pages) : k < Len(sent) }

\* C1: for every max_items M >= 0 and whatever the server answered, the list
\* get_all_pages returns has at most M items.
C1_ResultWithinCap ==
    (pc = "returned" /\ max_items >= 0) => Len(returned) <= max_items

\* C1 witness: a call over two pages returned exactly max_items items, cut
\* from a longer accumulator
C1_Witness ==
    /\ pc = "returned"
    /\ Len(pages) >= 2
    /\ max_items >= page_size
    /\ Len(results) > max_items
    /\ Len(returned) = max_items

\* C2 (as stated): for every M >= 0 the call issues at most
\* ceil(M / 100) + 1 requests.
C2_Original ==
    max_items >= 0 => Len(sent) <= CeilDiv(max_items, page_size) + 1

\* C2 (amended): for every M >= 0 the call issues at most M requests
\* whatever the page sizes, and at most ceil(M / 100) + 1 requests when every
\* page that was followed by another request carried at least 100 items.
C2_RequestBound ==
    max_items >= 0 =>
        /\ Len(sent) <= max_items
        /\ (\A k \in FollowedPages : Len(pages[k]) >= page_size)
              => Len(sent) <= CeilDiv(max_items, page_size) + 1

\* C2 witness: the server reported a continuation on every page, sent full
\* pages and then an empty one, which ended the call
C2_Witness ==
    /\ pc = "returned"
    /\ Len(pages) >= 2
    /\ Truthy(last.next)
    /\ LastPage = <<>>
    /\ \A k \in 1 .. Len(pages) - 1 : Len(pages[k]) >= page_size

\* C3: after each page another request is issued if and only if the
\* accumulated count is below max_items, the page carried a continuation
\* indicator and the page was not empty; an empty page or a page without a
\* continuation indicator ends the call with a normal return of the items
\* accumulated so far (cut to max_items), never with an error.
C3_StopTest ==
    [][ pages' # pages =>
          LET page == pages'[Len(pages')]
              stop == ~Truthy(last'.next) \/ page = <<>>
          IN  /\ (Len(sent') = Len(sent) + 1)
                    <=> (Len(results') < max_items /\ ~stop)
              /\ Len(sent') # Len(sent) + 1 => sent' = sent
              /\ stop => /\ pc' = "returned"
                         /\ raised' = "none"
                         /\ returned' = SliceTo(results', max_items) ]_vars

\* C3 witness: a page without a continuation indicator ended a call that was
\* still below its cap after two pages
C3_Witness ==
    /\ pc = "returned"
    /\ Len(pages) >= 2
    /\ ~Truthy(last.next)
    /\ LastPage # <<>>
    /\ Len(results) < max_items

\* C4: the result is the concatenation, in request order, of the items of
\* every page fetched, cut to its first max_items items.
C4_ResultIsConcatenation ==
    (pc = "returned" /\ max_items >= 0)
        => returned = SliceTo(Flatten(pages), max_items)

\* C4 witness: three pages were fetched and the cut fell inside the last one
C4_Witness ==
    /\ pc = "returned"
    /\ Len(pages) >= 3
    /\ LastPage # <<>>
    /\ Len(returned) > SumLen(SubSeq(pages, 1, Len(pages) - 1))
    /\ Len(returned) < SumLen(pages)

\* C5: the requests of a call are issued one at a time, each with limit 100
\* and an offset strictly greater than the previous request's and equal to
\* the number of items of all earlier pages (first 0); a limit or offset of
\* the caller's params never reaches the server.
C5_SequentialOffsets ==
    /\ Len(sent) - Len(pages) \in {0, 1}
    /\ (Len(sent) = Len(pages) + 1) <=> (pc \in {"awaiting", "raised"})
    /\ \A i \in 1 .. Len(sent) :
        /\ sent[i].params["limit"] = PyInt(page_size)
        /\ sent[i].params["offset"] = PyInt(SumLen(SubSeq(pages, 1, i - 1)))
        /\ i > 1 => sent[i].params["offset"][2] > sent[i - 1].params["offset"][2]

\* C5 witness: a caller that passed its own limit and offset got a third
\* request out after a short page
C5_Witness ==
    /\ Len(sent) >= 3
    /\ "limit" \in DOMAIN params
    /\ "offset" \in DOMAIN params
    /\ \E k \in FollowedPages : Len(pages[k]) < page_size

\* C6 (as stated): at every point of a call the accumulated list has at most
\* max_items items.
C6_Original ==
    (pc # "idle" /\ max_items >= 0) => Len(results) <= max_items

\* C6 (amended): at every point of a call the accumulated list held fewer
\* than max_items items before the latest page was appended to it, so it
\* exceeds max_items by less than the length of that page; only the returned
\* list is cut to max_items.
C6_AccumulatorBound ==
    (pc # "idle" /\ max_items >= 0) =>
        /\ pages = <<>> => results = <<>>
        /\ pages # <<>> => Len(results) - Len(LastPage) < max_items
        /\ pc = "returned" => Len(returned) = Min(Len(results), max_items)

\* C6 witness: the accumulator is longer than a positive cap
C6_Witness ==
    /\ pc # "idle"
    /\ max_items >= 1
    /\ Len(results) > max_items

-----------------------------------------------------------------------------
(* Properties of the handshake session *)

Range(f) == { f[i] : i \in DOMAIN f }

\* the run saved a record and returned from main
Saved == mpc = "exit" /\ exit_code = "0" /\ granted = "True"

C8_WrittenAtMostOnce == Len(received_token) <= 1 /\ set_calls <= 1

\* the state of the handshake session
SessionState ==
    IF serving = "none" THEN "Idle"
    ELSE IF serving = "stopped" THEN "Stopped"
    ELSE IF granted = "unset" THEN "Listening"
    ELSE IF granted = "True" THEN "TokenReceived"
    ELSE "TimedOut"

SessionSteps ==
    { <<"Idle", "Listening">>,
      <<"Listening", "TokenReceived">>, <<"Listening", "TimedOut">>,
      <<"TokenReceived", "Stopped">>, <<"TimedOut", "Stopped">> }

\* C9: every handshake session follows
\* Idle -> Listening -> {TokenReceived | TimedOut} -> Stopped; it observes
\* exactly one of the two outcomes, the listener is stopped in both, and no
\* transition leaves Stopped.
C9_SessionStateMachine ==
    /\ [][ \/ SessionState' = SessionState
           \/ <<SessionState, SessionState'>> \in SessionSteps ]_vars
    /\ [][ granted # "unset" => granted' = granted ]_vars
    /\ []( (serving # "none" /\ mpc \in {"check", "save", "exit"}) =>
              /\ SessionState = "Stopped"
              /\ granted \in {"True", "False"}
              /\ mpc = "save" => granted = "True"
              /\ mpc = "exit" => (exit_code = "1" <=> granted = "False")
              /\ mpc = "exit" => (exit_code = "0" <=> granted = "True") )

\* C9 witness: a session that timed out with a token already in the buffer
\* has been stopped and the run has ended in failure
C9_Witness ==
    /\ mpc = "exit"
    /\ SessionState = "Stopped"
    /\ granted = "False"
    /\ received_token # <<>>
    /\ exit_code = "1"

\* C10 (as stated): GET / answers 200 with a body that contains the
\* Developer Token verbatim, POST /save_token (with a token body) answers 200
\* with {"ok": true}, and every other method or path answers 404.
C10_TwoRoutes ==
    (req # NoRequest /\ hpc = "idle") =>
        IF req.method = "GET" /\ UrlPath(req.target) = "/"
        THEN resp.status = 200 /\ developer_token \in Range(resp.body)
        ELSE IF req.method = "POST" /\ UrlPath(req.target) = "/save_token"
        THEN req.body.kind = "token" =>
                resp = [status |-> 200, body |-> <<"{\"ok\":true}">>]
        ELSE resp.status = 404

-----------------------------------------------------------------------------
(* Properties of the setup run *)

\* C11: a handshake session whose wait ends by the timeout (no POST
\* /save_token raised the signal in time) transitions to TimedOut; from there
\* the run only stops the listener and fails: it never reaches the save step,
\* and when it has ended the listener is stopped, the listening port is
\* released, the exit status is non-zero and the record is not updated.
C11_TimeoutFails ==
    /\ [][ (mpc = "wait" /\ ~token_event /\ mpc' # mpc) =>
              /\ SessionState' = "TimedOut"
              /\ granted' = "False" ]_vars
    /\ [](granted = "False" =>
              mpc \in {"shutdown", "shutdown_wait", "check", "exit"})
    /\ []((granted = "False" /\ mpc = "exit") =>
              /\ SessionState = "Stopped"
              /\ port = "free"
              /\ exit_code = "1"
              /\ file = file0)

\* C11 witness: a session that got no token at all has timed out and the run
\* has ended
C11_Witness ==
    /\ mpc = "exit"
    /\ granted = "False"
    /\ received_token = <<>>
    /\ ~token_event
    /\ exit_code = "1"
    /\ port = "free"

\* C12: the credential file is written only by the save step, which is
\* reached only after the handshake completed with a received token (wait
\* returned True, the buffer holds a token, the listener is stopped); a run
\* that ends in a missing key file, a signing failure, a handshake timeout or
\* a user quit leaves the file exactly as it was when the run started.
C12_WrittenOnlyAfterHandshake ==
    /\ [][ file' # file =>
              /\ mpc = "save"
              /\ granted = "True"
              /\ received_token # <<>>
              /\ SessionState = "Stopped" ]_vars
    /\ [](file # file0 => Saved)
    /\ []((mpc = "exit" /\ (exit_code = "1" \/ serving = "none")) =>
              file = file0)

\* C12 witness: a run over an existing record completed the handshake and
\* rewrote the file
C12_Witness ==
    /\ Saved
    /\ file0.exists
    /\ file # file0
    /\ received_token # <<>>

\* C13 (as stated): after the handshake timeout has fired the setup flow
\* always reaches its end, whatever request is in flight in the listener:
\* until the process has exited, some step of the run remains possible.
C13_TimeoutAlwaysEnds ==
    (granted = "False" /\ mpc # "exit") => ENABLED SetupNext

\* C14 (as stated): in every interleaving of a POST /save_token with the
\* timeout, a token delivered before the wait ends wins: when the wait ends
\* with a token in the buffer whose POST has been answered 200, the outcome
\* is TokenReceived (wait returned True), never TimedOut.
C14_DeliveredTokenWins ==
    [][ ( /\ mpc = "wait"
          /\ mpc' # mpc
          /\ received_token # <<>>
          /\ (hpc = "responded" \/ token_event) ) =>
        granted' = "True" ]_vars

\* C15 (as stated): for a credential record in which the team identifier,
\* the key identifier or the private-key path is missing or empty the signer
\* fails and produces no Developer Token: a run that holds a Developer Token
\* has all three fields present and non-empty.
C15_SignerNeedsAllFields ==
    developer_token # NoToken =>
        \A k \in {"team_id", "key_id", "private_key_path"} : Get(cfg, k) # ""

\* the run was ended by the operator at the existing-configuration prompt
Quit ==
    /\ mpc = "exit"
    /\ exit_code = "0"
    /\ serving = "none"
    /\ sign_calls = 0
    /\ file0.exists
    /\ file = file0

\* C16 (as stated): the signer is invoked at most once per run and the run
\* exits 0 only on the path that saved the credential record.
C16_Original ==
    /\ sign_calls <= 1
    /\ (mpc = "exit" /\ exit_code = "0") => (granted = "True" /\ file # file0)

\* C16 (amended): a missing key file or a signing failure ends the run with
\* exit status 1 before the listener is started; the signer is invoked at most
\* once per run, and a listener only ever runs after that one invocation
\* succeeded; the run exits 0 only on the path that saved the credential
\* record or when the operator quit at the existing-configuration prompt,
\* before anything was signed or started.
C16_AbortBeforeListener ==
    /\ [](sign_calls <= 1)
    /\ [][ ( /\ mpc = "validate"
             /\ ~( /\ "private_key_path" \in DOMAIN cfg
                   /\ PathExists(cfg["private_key_path"]) ) ) =>
           ( /\ mpc' = "exit"
             /\ exit_code' = "1"
             /\ sign_calls' = 0
             /\ serving' = "none"
             /\ port' = "free" ) ]_vars
    /\ [][ ( /\ mpc = "sign"
             /\ \/ {"team_id", "key_id", "private_key_path"} \ DOMAIN cfg # {}
                \/ ~ValidKeyFile(Get(cfg, "private_key_path")) ) =>
           ( /\ mpc' = "exit"
             /\ exit_code' = "1"
             /\ sign_calls' = 1
             /\ developer_token' = NoToken
             /\ serving' = "none"
             /\ port' = "free" ) ]_vars
    /\ [](serving # "none" => sign_calls = 1 /\ developer_token # NoToken)
    /\ []((mpc = "exit" /\ exit_code = "0") =>
              \/ Quit
              \/ granted = "True" /\ file # file0 /\ sign_calls = 1)

\* C16 witness: a run whose key file exists but holds no usable key ended in
\* the signer, before any listener
C16_Witness ==
    /\ mpc = "exit"
    /\ exit_code = "1"
    /\ sign_calls = 1
    /\ developer_token = NoToken
    /\ serving = "none"
    /\ port = "free"

\* the claims of a Developer Token
Iat(token) == token[4]
Exp(token) == token[5]

\* C17: for every issued-at value, the expiry of the Developer Token equals
\* issued-at + 15,777,000 seconds.
C17_ExpiryIsIatPlusLifetime ==
    developer_token # NoToken =>
        /\ Iat(developer_token) \in Times
        /\ Exp(developer_token) = Iat(developer_token) + 15777000

\* C17 witness: a token issued at a time other than the epoch
C17_Witness ==
    /\ developer_token # NoToken
    /\ Iat(developer_token) = 1700000000
    /\ Exp(developer_token) = 1715777000

\* C18: after any save of a credential record the backing file exists with
\* owner-only permission 0600, whatever its permission was before and whether
\* or not the file or its directory existed.
C18_SavedFileIsOwnerOnly ==
    /\ [][ file' # file =>
              /\ file'.dir
              /\ file'.exists
              /\ file'.mode = "0600" ]_vars
    /\ [](Saved => file.exists /\ file.mode = "0600")

\* C18 witness: a file that was readable by others has been saved again
C18_Witness ==
    /\ Saved
    /\ file0.exists
    /\ file0.mode = "0644"
    /\ file.mode = "0600"

\* C19: load() returns the empty record when no credential file exists (the
\* first run is not an error) and otherwise the record written by the most
\* recent save: what load() returns after save(r) is exactly r, with no field
\* of an earlier record surviving.
C19_LoadReturnsLastSave ==
    /\ [](~file.exists => load_existing(file) = EmptyRecord)
    /\ [][ (mpc = "start" /\ mpc' # mpc) =>
              /\ cfg' \in {load_existing(file), EmptyRecord}
              /\ ~file.exists => (cfg' = EmptyRecord /\ mpc' = "gather") ]_vars
    /\ [][ file' # file => load_existing(file') = cfg' ]_vars
    /\ [](Saved => /\ load_existing(file) = cfg
                   /\ DOMAIN load_existing(file) = DOMAIN cfg)

\* C19 witness: a save over a record that had a field the new record lacks
C19_Witness ==
    /\ Saved
    /\ file0.exists
    /\ "legacy_note" \in DOMAIN load_existing(file0)
    /\ "legacy_note" \notin DOMAIN load_existing(file)
    /\ load_existing(file) = cfg

-----------------------------------------------------------------------------
(* Properties of get *)

\* C20: every request get() puts on the wire carries exactly the parameters
\* whose value is present (a parameter whose value is None is stripped, every
\* other one, falsy ones like offset 0 included, is kept unchanged) and its
\* headers are chosen by user_auth alone: both the Developer Token and the
\* user credential when it is set, only the Developer Token otherwise.
C20_GetStripsAndSelects ==
    \A i \in DOMAIN sent :
        LET sp == sent[i].params
            own == DOMAIN params \ {"limit", "offset"}
        IN  /\ DOMAIN sp \subseteq DOMAIN params \cup {"limit", "offset"}
            /\ \A k \in own :
                 /\ params[k] = PyNone => k \notin DOMAIN sp
                 /\ params[k] # PyNone => (k \in DOMAIN sp /\ sp[k] = params[k])
            /\ {"limit", "offset"} \subseteq DOMAIN sp
            /\ sp["limit"] = PyInt(100)
            /\ i = 1 => sp["offset"] = PyInt(0)
            /\ sent[i].headers =
                 IF user_auth THEN {"developer_token", "user_credential"}
                 ELSE {"developer_token"}

\* C20 witness: a catalog-only request made with a None-valued parameter and
\* offset 0, followed by a second request
C20_Witness ==
    /\ Len(sent) >= 2
    /\ ~user_auth
    /\ "extend" \in DOMAIN params
    /\ params["extend"] = PyNone
    /\ "extend" \notin DOMAIN sent[1].params
    /\ sent[1].params["include"] = PyStr("catalog")
    /\ sent[1].params["offset"] = PyInt(0)
    /\ sent[1].headers = {"developer_token"}

-----------------------------------------------------------------------------
(* Properties of get and post *)

\* the call has ended
Done == cpc \in {"returned", "raised"}

\* the bodies that are JSON documents
JsonTexts == {"{\"data\":[]}", "{\"id\":\"p.1\"}"}

\* a response was received and its status is outside 200..299
NonSuccess == answer # NoAnswer /\ (answer.status < 200 \/ answer.status > 299)

\* C21 (as stated): each call of get or post issues exactly one HTTP request
\* and ends in exactly one of a decoded result, an HttpStatusError (if and
\* only if a non-2xx response was received) or a TransportError (if and only
\* if no response was received).
C21_Original ==
    /\ cpc # "idle" => Len(wire) = 1
    /\ Done =>
         /\ outcome.kind = "return" <=> outcome.error = "none"
         /\ outcome.error \in {"none", "HTTPStatusError"} \cup TransportFailures
         /\ outcome.error = "HTTPStatusError" <=> NonSuccess
         /\ outcome.error \in TransportFailures <=> answer = NoAnswer

\* C21 (amended): each call of get or post issues exactly one HTTP request
\* and takes no step after it has ended (no retry); it ends in exactly one of
\* a result, an HTTPStatusError (if and only if a non-2xx response was
\* received), a transport error (if and only if no response was received) or
\* a JSON decode error (if and only if a 2xx response was received whose body
\* is not JSON and, for post, not empty); the error is the one that was
\* raised.
C21_OneRequestOneOutcome ==
    /\ [](cpc # "idle" => Len(wire) = 1)
    /\ [][ ~Done ]_vars
    /\ [](Done =>
            /\ outcome.kind = "return" <=> outcome.error = "none"
            /\ outcome.kind = "raise" <=> cpc = "raised"
            /\ outcome.error = "HTTPStatusError" <=> NonSuccess
            /\ outcome.error \in TransportFailures <=> answer = NoAnswer
            /\ outcome.error = "JSONDecodeError" <=>
                 /\ answer # NoAnswer
                 /\ ~NonSuccess
                 /\ answer.content \notin JsonTexts
                 /\ call.method = "get" \/ answer.content # ""
            /\ outcome.error \in
                 {"none", "HTTPStatusError", "JSONDecodeError"}
                     \cup TransportFailures)

\* C21 witness: a get that received 204 with no body ended in a decode error
\* after its one request
C21_Witness ==
    /\ cpc = "raised"
    /\ call.method = "get"
    /\ Len(wire) = 1
    /\ answer.status = 204
    /\ answer.content = ""
    /\ outcome.error = "JSONDecodeError"

\* C22: post checks the status before it looks at the body: a non-2xx
\* response raises HTTPStatusError whether or not it has a body, a 2xx
\* response with no body yields the empty result without a decode attempt,
\* and a 2xx response with a body yields what decoding that body gives (the
\* document, or the decode error of a body that is not JSON).
C22_PostStatusBeforeBody ==
    (Done /\ call.method = "post" /\ answer # NoAnswer) =>
        /\ NonSuccess =>
             (outcome.kind = "raise" /\ outcome.error = "HTTPStatusError")
        /\ (~NonSuccess /\ answer.content = "") =>
             (outcome.kind = "return" /\ outcome.value = <<"dict", "empty", <<>>>>)
        /\ (~NonSuccess /\ answer.content = "{\"data\":[]}") =>
             (outcome.kind = "return" /\ outcome.value = <<"dict", "data", <<>>>>)
        /\ (~NonSuccess /\ answer.content = "{\"id\":\"p.1\"}") =>
             (outcome.kind = "return" /\ outcome.value = <<"dict", "id", "p.1">>)
        /\ (~NonSuccess /\ answer.content \notin JsonTexts \cup {""}) =>
             (outcome.kind = "raise" /\ outcome.error = "JSONDecodeError")

\* C22 witness: a post answered 500 without a body has raised
C22_Witness ==
    /\ cpc = "raised"
    /\ call.method = "post"
    /\ answer.status = 500
    /\ answer.content = ""
    /\ outcome.error = "HTTPStatusError"

\* the upper bound each tool documents for its limit
DocumentedBound(t) ==
    IF t \in {"search_catalog", "search_library"} THEN 25
    ELSE IF t = "get_recently_played" THEN 50
    ELSE IF t = "get_recommendations" THEN 10
    ELSE 100

\* C23: for every integer limit passed to a list or search tool, the limit
\* that reaches the API lies inside the bound the tool documents (1-25 for
\* the searches, 1-100 for library songs, albums, artists, playlists and
\* playlist tracks, 1-50 for get_recently_played, 1-10 for
\* get_recommendations); a limit inside the bound is sent as it is.
C23_LimitWithinDocumentedBound ==
    call.tool # "none" =>
        LET sp == wire[1].request.params
        IN  /\ Len(wire) = 1
            /\ "limit" \in DOMAIN sp
            /\ sp["limit"][1] = "int"
            /\ 1 <= sp["limit"][2]
            /\ sp["limit"][2] <= DocumentedBound(call.tool)
            /\ (1 <= call.limit /\ call.limit <= DocumentedBound(call.tool)) =>
                 sp["limit"] = PyInt(call.limit)

\* C23 witness: get_recommendations called with a negative limit sent 1, and
\* the request was answered
C23_Witness ==
    /\ call.tool = "get_recommendations"
    /\ call.limit < 0
    /\ wire[1].request.params["limit"] = PyInt(1)
    /\ cpc = "returned"

-----------------------------------------------------------------------------
(* Further properties of the handshake session *)

\* the request in hand is a POST that has been answered 200 {"ok": true}
Acknowledged == req.method = "POST" /\ resp.status = 200

\* C24 (as stated): whenever the listener has answered 200 {"ok": true} to a
\* POST /save_token, the run ends in TokenReceived with exit status 0 and has
\* saved a credential record that contains a token; it never ends reporting a
\* timeout with nothing saved.
C24_AcknowledgedTokenIsSaved ==
    (Acknowledged /\ mpc = "exit") =>
        /\ granted = "True"
        /\ exit_code = "0"
        /\ file # file0
        /\ "music_user_token" \in DOMAIN load_existing(file)

\* the request in hand is a POST /save_token whose body is not JSON or has no
\* "token" field
Malformed == req.method = "POST" /\ req.body.kind \in {"nojson", "nofield"}

\* C25: handling a POST /save_token whose body is not valid JSON or has no
\* "token" field leaves the session unchanged: the buffer is not written, the
\* signal is not raised, no 200 is answered and the waiting flow is not
\* touched; afterwards the listener still accepts a POST and the wait can
\* still time out.
C25_MalformedPostChangesNothing ==
    /\ [][ (hpc = "reading" /\ Malformed /\ hpc' # hpc) =>
              /\ hpc' = "idle"
              /\ received_token' = received_token
              /\ token_event' = token_event
              /\ set_calls' = set_calls
              /\ resp'.status # 200
              /\ UNCHANGED <<mpc, granted, serving, file, cfg, exit_code>> ]_vars
    /\ []((Malformed /\ hpc = "idle" /\ serving = "serving" /\ nreq < MaxHttp) =>
              ENABLED do_POST)
    /\ []((Malformed /\ hpc = "idle" /\ mpc = "wait" /\ ~token_event) =>
              ENABLED WaitTimeout)

\* C25 witness: a malformed POST has been handled in a waiting session that
\* has no token yet
C25_Witness ==
    /\ Malformed
    /\ req.body.kind = "nofield"
    /\ hpc = "idle"
    /\ mpc = "wait"
    /\ serving = "serving"
    /\ received_token = <<>>
    /\ ~token_event
    /\ resp.status = 0

-----------------------------------------------------------------------------
(* Failure of a page request *)

\* C26: if the request for a page fails inside get_all_pages, the call fails
\* with the error of that request, takes no further step (no further request)
\* and returns nothing: a result is returned only when every request was
\* answered, and the items of the pages fetched before the failure stay in
\* the abandoned accumulator.
C26_FailurePropagates ==
    /\ [][ pc # "raised" ]_vars
    /\ [][ (pc = "awaiting" /\ Len(pages') = Len(pages) /\ pc' # pc) =>
              /\ pc' = "raised"
              /\ raised' \in GetErrors
              /\ sent' = sent
              /\ returned' = <<>> ]_vars
    /\ [](pc = "raised" =>
              /\ raised \in GetErrors
              /\ returned = <<>>
              /\ Len(sent) = Len(pages) + 1)
    /\ [](pc = "returned" => (raised = "none" /\ Len(pages) = Len(sent)))

\* C26 witness: the third request failed after two pages with items had been
\* fetched
C26_Witness ==
    /\ pc = "raised"
    /\ raised = "HTTPStatusError"
    /\ Len(sent) = 3
    /\ Len(pages) = 2
    /\ results # <<>>
    /\ returned = <<>>

=============================================================================
